---- MODULE Spec2Model ----
(***************************************************************************)
(* A model of qutip_qip/device/circuitqed.py: the superconducting-qubit    *)
(* processor SCQubits and its physical model SCQubitsModel.                *)
(*                                                                         *)
(* Numbers.  The program computes with IEEE double floats.  A number is    *)
(* modelled as an exact fraction <<n, d>> in lowest terms with d > 0,      *)
(* extended with the three IEEE special values a division by zero can      *)
(* produce: <<1, 0>> is +inf, <<-1, 0>> is -inf and <<0, 0>> is NaN.       *)
(* Rounding is not modelled: every finite result is the exact one.         *)
(***************************************************************************)
EXTENDS Integers, Sequences, FiniteSets, TLC

\* ------------------------------------------------------------------------
\* Bounds of the model.

\* the largest num_qubits a call with list-valued keyword arguments is made with
MaxQubits == 3
\* the largest num_qubits of a call made with scalar or default arguments only
MaxChain == 11
\* the most keyword arguments (dims, zz_crosstalk, hardware parameters) of a call
MaxKwargs == 2
\* the most item assignments a caller makes to model.params after construction
MaxEdits == 2

\* ------------------------------------------------------------------------
\* Float arithmetic.

Sign(n) == IF n > 0 THEN 1 ELSE IF n < 0 THEN -1 ELSE 0

AbsInt(n) == IF n < 0 THEN -n ELSE n

RECURSIVE Gcd(_, _)
Gcd(a, b) == IF b = 0 THEN a ELSE Gcd(b, a % b)

Inf == <<1, 0>>

NegInf == <<-1, 0>>

NaN == <<0, 0>>

IsNaN(a) == a = NaN

IsFinite(a) == a[2] /= 0

\* the float of the fraction n/d; n/0 is an infinity or NaN as in IEEE
Norm(n, d) ==
    IF d = 0 THEN <<Sign(n), 0>>
    ELSE LET g == Gcd(AbsInt(n), AbsInt(d))
         IN  <<Sign(d) * (n \div g), AbsInt(d) \div g>>

Num(n) == <<n, 1>>

Neg(a) == <<-a[1], a[2]>>

Add(a, b) ==
    IF IsNaN(a) \/ IsNaN(b) THEN NaN
    ELSE IF ~IsFinite(a) /\ ~IsFinite(b) THEN (IF a = b THEN a ELSE NaN)
    ELSE IF ~IsFinite(a) THEN a
    ELSE IF ~IsFinite(b) THEN b
    ELSE LET g == Gcd(a[2], b[2])
         IN  Norm(a[1] * (b[2] \div g) + b[1] * (a[2] \div g), (a[2] \div g) * b[2])

Sub(a, b) == Add(a, Neg(b))

\* cross-cancelled so that no intermediate product exceeds the result
Mul(a, b) ==
    IF ~IsFinite(a) \/ ~IsFinite(b) THEN Norm(a[1] * b[1], 0)
    ELSE LET g1 == Gcd(AbsInt(a[1]), b[2])
             g2 == Gcd(AbsInt(b[1]), a[2])
         IN  Norm((a[1] \div g1) * (b[1] \div g2), (a[2] \div g2) * (b[2] \div g1))

\* 1/a for a numpy float: 1/0 is +inf (every zero divisor of the program is
\* the +0.0 that a difference of equal floats gives), 1/inf is 0
Recip(a) ==
    IF a[1] < 0 THEN <<-a[2], -a[1]>> ELSE <<a[2], a[1]>>

Div(a, b) == Mul(a, Recip(b))

Abs(a) == <<AbsInt(a[1]), a[2]>>

\* the float comparison ==: NaN equals nothing, itself included
FloatEq(a, b) == ~IsNaN(a) /\ ~IsNaN(b) /\ a = b

\* ------------------------------------------------------------------------
\* Python values.

Float(x) == [type |-> "float", items |-> <<x>>]

List(s) == [type |-> "list", items |-> s]

NdArray(s) == [type |-> "ndarray", items |-> s]

None == [type |-> "NoneType", items |-> <<>>]

IsScalar(p) == p.type = "float"

IsSequence(p) == p.type \in {"list", "ndarray"}

\* len(p) of a list or an array
PyLen(p) == Len(p.items)

\* s * k for a tuple or list s: k copies of s, none when k <= 0
RECURSIVE Repeat(_, _)
Repeat(s, k) == IF k <= 0 THEN <<>> ELSE s \o Repeat(s, k - 1)

\* s[:n], a negative n counting from the end
SliceTo(s, n) ==
    LET stop == IF n < 0 THEN (IF Len(s) + n < 0 THEN 0 ELSE Len(s) + n)
                ELSE (IF n > Len(s) THEN Len(s) ELSE n)
    IN  SubSeq(s, 1, stop)

\* the element s[i] of a sequence indexed from 0, as Python indexes it: a
\* negative i counts from the end
At(s, i) == IF i < 0 THEN s[Len(s) + i + 1] ELSE s[i + 1]

\* whether p[i] raises: TypeError on a value that is no sequence, IndexError
\* outside -len..len-1
SubscriptError(p, i) ==
    IF ~IsSequence(p) THEN "TypeError"
    ELSE IF i >= PyLen(p) \/ i < 0 - PyLen(p) THEN "IndexError"
    ELSE ""

\* str(m) of an integer m >= 0
RECURSIVE Str(_)
Str(m) ==
    LET digit == SubSeq("0123456789", (m % 10) + 1, (m % 10) + 1)
    IN  IF m < 10 THEN digit ELSE Str(m \div 10) \o digit

\* d[key] = value on a dict kept as its sequence of items in insertion order:
\* an existing key keeps its place and takes the new value
DictSet(d, key, value) ==
    IF \E k \in 1..Len(d) : d[k].key = key
    THEN [k \in 1..Len(d) |-> IF d[k].key = key
                              THEN [key |-> key, value |-> value] ELSE d[k]]
    ELSE Append(d, [key |-> key, value |-> value])

\* dict.update: the entries of kw replace or extend those of d
Update(d, kw) ==
    [name \in DOMAIN d \cup DOMAIN kw |->
        IF name \in DOMAIN kw THEN kw[name] ELSE d[name]]

\* the first error of a sequence of outcomes, "" when none raised
RECURSIVE FirstError(_)
FirstError(errs) ==
    IF errs = <<>> THEN ""
    ELSE IF Head(errs) /= "" THEN Head(errs)
    ELSE FirstError(Tail(errs))

\* the concatenation of a sequence of sequences
RECURSIVE Flatten(_)
Flatten(ss) == IF ss = <<>> THEN <<>> ELSE Head(ss) \o Flatten(Tail(ss))

\* ------------------------------------------------------------------------
\* modelprocessor._to_array(params, num_qubits): a number is repeated
\* num_qubits times; a list must already have that length.

ToArrayError(p, n) ==
    IF IsScalar(p) THEN ""
    ELSE IF IsSequence(p) /\ PyLen(p) = n THEN ""
    ELSE "ConfigurationError"

ToArray(p, n) ==
    IF IsScalar(p) THEN NdArray(Repeat(p.items, n)) ELSE NdArray(p.items)

\* ------------------------------------------------------------------------
\* SCQubitsModel.__init__: the default hardware parameters.

\* int(np.ceil(num_qubits / 2))
CeilHalf(num_qubits) == (num_qubits + 1) \div 2

DefaultParams(num_qubits) ==
    [wq |-> NdArray(SliceTo(Repeat(<< <<103, 20>>, <<509, 100>> >>,
                                   CeilHalf(num_qubits)), num_qubits)),
     wr |-> Float(<<149, 25>>),
     alpha |-> Float(<<-3, 10>>),
     g |-> Float(<<1, 10>>),
     omega_single |-> Float(<<1, 100>>),
     omega_cr |-> Float(<<1, 100>>)]

\* ------------------------------------------------------------------------
\* SCQubitsModel._compute_params.

\* the first half: the scalars are broadcast, in the order the code does it
NormalizeError(num_qubits, params) ==
    FirstError(<<ToArrayError(params["alpha"], num_qubits),
                 ToArrayError(params["omega_single"], num_qubits),
                 ToArrayError(params["omega_cr"], num_qubits),
                 ToArrayError(params["wr"], num_qubits - 1),
                 ToArrayError(params["g"], 2 * (num_qubits - 1))>>)

\* a normalisation that gives wr one entry per qubit
NormalizeWrPerQubit(num_qubits, params) ==
    [params EXCEPT
        !["alpha"] = ToArray(params["alpha"], num_qubits),
        !["omega_single"] = ToArray(params["omega_single"], num_qubits),
        !["omega_cr"] = ToArray(params["omega_cr"], num_qubits),
        !["wr"] = ToArray(params["wr"], num_qubits),
        !["g"] = ToArray(params["g"], 2 * (num_qubits - 1))]

Normalize(num_qubits, params) ==
    [params EXCEPT
        !["alpha"] = ToArray(params["alpha"], num_qubits),
        !["omega_single"] = ToArray(params["omega_single"], num_qubits),
        !["omega_cr"] = ToArray(params["omega_cr"], num_qubits),
        !["wr"] = ToArray(params["wr"], num_qubits - 1),
        !["g"] = ToArray(params["g"], 2 * (num_qubits - 1))]

\* The subscripts each loop body evaluates, in evaluation order, as
\* <<array name, index>>.
WqDressedReads(num_qubits, i) ==
    << <<"wq", i>> >>
    \o (IF i /= 0
        THEN << <<"g", 2 * i - 1>>, <<"wq", i>>, <<"wr", i - 1>> >> ELSE <<>>)
    \o (IF i /= num_qubits - 1
        THEN << <<"g", 2 * i>>, <<"wq", i>>, <<"wr", i>> >> ELSE <<>>)

WrDressedReads(i) ==
    << <<"wr", i>>,
       <<"g", 2 * i>>, <<"wq", i>>, <<"wr", i>>, <<"alpha", i>>,
       <<"g", 2 * i + 1>>, <<"wq", i + 1>>, <<"wr", i>>, <<"alpha", i>> >>

JReads(i) ==
    << <<"g", 2 * i>>, <<"g", 2 * i + 1>>,
       <<"wq", i>>, <<"wq", i + 1>>, <<"wr", i>>,
       <<"wq", i>>, <<"wr", i>>, <<"wq", i + 1>>, <<"wr", i>> >>

ZxForwardReads(i) ==
    << <<"J", i>>, <<"omega_cr", i>>,
       <<"wq", i>>, <<"wq", i + 1>>, <<"alpha", i>>,
       <<"wq", i>>, <<"wq", i + 1>> >>

ZxBackwardReads(i) ==
    << <<"J", i - 1>>, <<"omega_cr", i>>,
       <<"wq", i>>, <<"wq", i - 1>>, <<"alpha", i>>,
       <<"wq", i>>, <<"wq", i - 1>> >>

\* The coupling terms of one pass of each of the first three loops, read off
\* its subscripts: the entry of g, the qubit whose frequency is in the
\* divisor with it, and the resonator (link) of that divisor.  In the first
\* two loops a g subscript is followed by the wq and wr subscripts of its
\* divisor; in the third the two g factors come first and the two divisors
\* last, in the same order.
CouplingAt(reads, k, d) ==
    [g |-> reads[k][2], qubit |-> reads[d][2], link |-> reads[d + 1][2]]

WqDressedCouplings(num_qubits, i) ==
    LET reads == WqDressedReads(num_qubits, i)
    IN  {CouplingAt(reads, k, k + 1) : k \in {k \in 1..Len(reads) : reads[k][1] = "g"}}

WrDressedCouplings(i) ==
    LET reads == WrDressedReads(i)
    IN  {CouplingAt(reads, k, k + 1) : k \in {k \in 1..Len(reads) : reads[k][1] = "g"}}

JCouplings(i) ==
    LET reads == JReads(i)
    IN  {CouplingAt(reads, 1, 6), CouplingAt(reads, 2, 8)}

\* every subscript _compute_params evaluates, in program order
AllReads(num_qubits) ==
    Flatten([k \in 1..num_qubits |-> WqDressedReads(num_qubits, k - 1)])
    \o Flatten([k \in 1..(num_qubits - 1) |-> WrDressedReads(k - 1)])
    \o Flatten([k \in 1..(num_qubits - 1) |-> JReads(k - 1)])
    \o Flatten([k \in 1..(num_qubits - 1) |-> ZxForwardReads(k - 1)])
    \o Flatten([k \in 1..(num_qubits - 1) |-> ZxBackwardReads(num_qubits - k)])

\* params[name][i]
Item(params, name, i) == At(params[name].items, i)

\* a first loop that takes the lower link's coupling from its other side
WqDressedAtOtherSide(num_qubits, params, i) ==
    LET wq_i == Item(params, "wq", i)
        t1 == IF i /= 0
              THEN Add(wq_i, Div(Mul(Item(params, "g", 2 * i - 2),
                                     Item(params, "g", 2 * i - 2)),
                                 Sub(Item(params, "wq", i),
                                     Item(params, "wr", i - 1))))
              ELSE wq_i
    IN  IF i /= num_qubits - 1
        THEN Add(t1, Div(Mul(Item(params, "g", 2 * i), Item(params, "g", 2 * i)),
                         Sub(Item(params, "wq", i), Item(params, "wr", i))))
        ELSE t1

\* tmp of the "Dressed qubit frequency" loop at index i
WqDressedAt(num_qubits, params, i) ==
    LET wq_i == Item(params, "wq", i)
        t1 == IF i /= 0
              THEN Add(wq_i, Div(Mul(Item(params, "g", 2 * i - 1),
                                     Item(params, "g", 2 * i - 1)),
                                 Sub(Item(params, "wq", i),
                                     Item(params, "wr", i - 1))))
              ELSE wq_i
    IN  IF i /= num_qubits - 1
        THEN Add(t1, Div(Mul(Item(params, "g", 2 * i), Item(params, "g", 2 * i)),
                         Sub(Item(params, "wq", i), Item(params, "wr", i))))
        ELSE t1

\* tmp of the "Dressed resonator frequency" loop at index i
WrDressedAt(params, i) ==
    LET t1 == Sub(Item(params, "wr", i),
                  Div(Mul(Item(params, "g", 2 * i), Item(params, "g", 2 * i)),
                      Add(Sub(Item(params, "wq", i), Item(params, "wr", i)),
                          Item(params, "alpha", i))))
    IN  Sub(t1,
            Div(Mul(Item(params, "g", 2 * i + 1), Item(params, "g", 2 * i + 1)),
                Add(Sub(Item(params, "wq", i + 1), Item(params, "wr", i)),
                    Item(params, "alpha", i))))

\* tmp of the "Effective qubit coupling strength" loop at index i
JAt(params, i) ==
    Div(Div(Div(Mul(Mul(Item(params, "g", 2 * i), Item(params, "g", 2 * i + 1)),
                    Sub(Add(Item(params, "wq", i), Item(params, "wq", i + 1)),
                        Mul(Num(2), Item(params, "wr", i)))),
                Num(2)),
            Sub(Item(params, "wq", i), Item(params, "wr", i))),
        Sub(Item(params, "wq", i + 1), Item(params, "wr", i)))

\* J * omega_cr * (1 / (wq[i] - wq[j] + alpha[i]) - 1 / (wq[i] - wq[j])), the
\* term both "Effective ZX strength" loops compute, for drive qubit i and
\* neighbour j over the coupling J[link]
ZxTerm(params, J, link, i, j) ==
    Mul(Mul(At(J, link), Item(params, "omega_cr", i)),
        Sub(Recip(Add(Sub(Item(params, "wq", i), Item(params, "wq", j)),
                      Item(params, "alpha", i))),
            Recip(Sub(Item(params, "wq", i), Item(params, "wq", j)))))

\* tmp of the first ZX loop (range(num_qubits - 1)) at index i
ZxForwardAt(params, J, i) == ZxTerm(params, J, i, i, i + 1)

\* a second loop whose drive qubit is the lower one of the link
ZxBackwardAtLower(params, J, i) == ZxTerm(params, J, i - 1, i - 1, i)

\* tmp of the second ZX loop (range(num_qubits - 1, 0, -1)) at index i
ZxBackwardAt(params, J, i) == ZxTerm(params, J, i - 1, i, i - 1)

\* 1 / (wq[i] - wq[j]) divides Python floats when wq is a list, and Python
\* raises on a zero divisor; the elements of an array are numpy floats, whose
\* division gives inf or NaN
PyDivError(params, i, j) ==
    IF params["wq"].type = "list"
       /\ Sub(Item(params, "wq", i), Item(params, "wq", j)) = Num(0)
    THEN "ZeroDivisionError"
    ELSE ""

WqDressed(num_qubits, params) ==
    [k \in 1..num_qubits |-> WqDressedAt(num_qubits, params, k - 1)]

WrDressed(num_qubits, params) ==
    [k \in 1..(num_qubits - 1) |-> WrDressedAt(params, k - 1)]

JList(num_qubits, params) ==
    [k \in 1..(num_qubits - 1) |-> JAt(params, k - 1)]

\* a second loop that runs upwards, over range(1, num_qubits)
ZxListAscending(num_qubits, params, J) ==
    [k \in 1..(num_qubits - 1) |-> ZxForwardAt(params, J, k - 1)]
    \o [k \in 1..(num_qubits - 1) |-> ZxBackwardAt(params, J, k)]

\* zx_coeff before the final scaling: the first loop's terms, then the second's
ZxList(num_qubits, params, J) ==
    [k \in 1..(num_qubits - 1) |-> ZxForwardAt(params, J, k - 1)]
    \o [k \in 1..(num_qubits - 1) |-> ZxBackwardAt(params, J, num_qubits - k)]

\* np.asarray(zx_coeff) * 2
ZxCoeff(num_qubits, params, J) ==
    LET zx == ZxList(num_qubits, params, J)
    IN  [k \in 1..Len(zx) |-> Mul(zx[k], Num(2))]

\* the first exception of a loop body's subscripts
ReadsError(params, reads) ==
    FirstError([k \in 1..Len(reads) |->
                   SubscriptError(params[reads[k][1]], reads[k][2])])

\* the first exception of one pass of a ZX loop: its subscripts, then the
\* division of Python floats
ZxIterError(params, reads, i, j) ==
    IF ReadsError(params, reads) /= "" THEN ReadsError(params, reads)
    ELSE PyDivError(params, i, j)

\* The exception _compute_params raises, "" when it returns.
ComputeParamsError(num_qubits, params) ==
    IF NormalizeError(num_qubits, params) /= ""
    THEN NormalizeError(num_qubits, params)
    ELSE
    LET p == Normalize(num_qubits, params)
        \* J has num_qubits - 1 entries by the time the ZX loops read it
        pj == Update(p, [J |-> List([k \in 1..(num_qubits - 1) |-> NaN])])
        dressed ==
            FirstError(
                [k \in 1..num_qubits |->
                    ReadsError(p, WqDressedReads(num_qubits, k - 1))]
                \o [k \in 1..(num_qubits - 1) |->
                       ReadsError(p, WrDressedReads(k - 1))]
                \o [k \in 1..(num_qubits - 1) |-> ReadsError(p, JReads(k - 1))])
    IN  IF dressed /= "" THEN dressed
        ELSE FirstError(
            [k \in 1..(num_qubits - 1) |->
                ZxIterError(pj, ZxForwardReads(k - 1), k - 1, k)]
            \o [k \in 1..(num_qubits - 1) |->
                   ZxIterError(pj, ZxBackwardReads(num_qubits - k),
                               num_qubits - k, num_qubits - k - 1)])

\* self.params when _compute_params returns
ComputeParams(num_qubits, params) ==
    LET p == Normalize(num_qubits, params)
        J == JList(num_qubits, p)
    IN  Update(p, [wq_dressed |-> List(WqDressed(num_qubits, p)),
                   wr_dressed |-> List(WrDressed(num_qubits, p)),
                   J |-> List(J),
                   zx_coeff |-> NdArray(ZxCoeff(num_qubits, p, J))])

\* ------------------------------------------------------------------------
\* SCQubitsModel._set_up_drift.  An operator is kept as the list of its tensor
\* factors, each the name of the single-site operator and the dimension it
\* was built with; the numeric prefactor 2 pi is left out.

\* destroy(self.dims[m]) of each pass
SetUpDriftError(num_qubits, dims) ==
    FirstError([k \in 1..num_qubits |-> SubscriptError(dims, k - 1)])

\* (coeff * destroy_op.dag() ** 2 * destroy_op ** 2, [m])
DriftTerm(dims, params, m) ==
    [coeff |-> Mul(Item(params, "alpha", m), <<1, 2>>),
     op |-> <<[f |-> "adag2_a2", dim |-> At(dims.items, m)]>>,
     targets |-> <<m>>]

SetUpDrift(num_qubits, dims, params) ==
    [k \in 1..num_qubits |-> DriftTerm(dims, params, k - 1)]

\* ------------------------------------------------------------------------
\* SCQubitsModel._set_up_controls.

RECURSIVE DictFrom(_, _)
DictFrom(d, entries) ==
    IF entries = <<>> THEN d
    ELSE DictFrom(DictSet(d, Head(entries).key, Head(entries).value), Tail(entries))

\* controls["sx" + str(m)] = (2 * np.pi / 2 * op, [m])
SxControl(dims, m) ==
    [key |-> "sx" \o Str(m),
     value |-> [op |-> <<[f |-> "x", dim |-> At(dims.items, m)]>>,
                targets |-> <<m>>]]

\* controls["sy" + str(m)] = (2 * np.pi / 2 * op, [m])
SyControl(dims, m) ==
    [key |-> "sy" \o Str(m),
     value |-> [op |-> <<[f |-> "y", dim |-> At(dims.items, m)]>>,
                targets |-> <<m>>]]

\* a third loop that stores both operators under the label zx m (m+1)
ZxControlsOneKey(dims, m) ==
    LET z == [f |-> "z", dim |-> At(dims.items, m)]
        x == [f |-> "x_proj", dim |-> At(dims.items, m + 1)]
    IN  << [key |-> "zx" \o Str(m) \o Str(m + 1),
            value |-> [op |-> <<z, x>>, targets |-> <<m, m + 1>>]],
           [key |-> "zx" \o Str(m) \o Str(m + 1),
            value |-> [op |-> <<x, z>>, targets |-> <<m, m + 1>>]] >>

\* a third loop that assigns zx (m+1) m before zx m (m+1)
ZxControlsReversed(dims, m) ==
    LET z == [f |-> "z", dim |-> At(dims.items, m)]
        x == [f |-> "x_proj", dim |-> At(dims.items, m + 1)]
    IN  << [key |-> "zx" \o Str(m + 1) \o Str(m),
            value |-> [op |-> <<x, z>>, targets |-> <<m, m + 1>>]],
           [key |-> "zx" \o Str(m) \o Str(m + 1),
            value |-> [op |-> <<z, x>>, targets |-> <<m, m + 1>>]] >>

\* The two assignments of one pass of the third loop: z is built with
\* d1 = dims[m] and x with d2 = dims[m + 1], and tensor() keeps the order of
\* its factors.
ZxControls(dims, m) ==
    LET z == [f |-> "z", dim |-> At(dims.items, m)]
        x == [f |-> "x_proj", dim |-> At(dims.items, m + 1)]
    IN  << [key |-> "zx" \o Str(m) \o Str(m + 1),
            value |-> [op |-> <<z, x>>, targets |-> <<m, m + 1>>]],
           [key |-> "zx" \o Str(m + 1) \o Str(m),
            value |-> [op |-> <<x, z>>, targets |-> <<m, m + 1>>]] >>

\* the dict the method returns: its items in insertion order
SetUpControls(num_qubits, dims) ==
    DictFrom(<<>>,
             [k \in 1..num_qubits |-> SxControl(dims, k - 1)]
             \o [k \in 1..num_qubits |-> SyControl(dims, k - 1)]
             \o Flatten([k \in 1..(num_qubits - 1) |-> ZxControls(dims, k - 1)]))

\* ------------------------------------------------------------------------
\* SCQubitsModel.__init__.

\* a noise list that holds the cross-talk term whatever the flag
NoiseListAlways(zz_crosstalk, params) ==
    <<[class |-> "ZZCrossTalk", args |-> params]>>

\* self._noise: ZZCrossTalk(self.params) when zz_crosstalk, kept as the
\* class of the term and the argument it was built with
NoiseList(zz_crosstalk, params) ==
    IF zz_crosstalk THEN <<[class |-> "ZZCrossTalk", args |-> params]>> ELSE <<>>

\* self.params.update(deepcopy(params)) on the defaults
InitialParams(num_qubits, kwargs) == Update(DefaultParams(num_qubits), kwargs)

\* The exception the constructor raises, "" when it returns: _compute_params
\* runs before _set_up_drift, the first method to subscript dims.
ModelError(num_qubits, dims, kwargs) ==
    IF ComputeParamsError(num_qubits, InitialParams(num_qubits, kwargs)) /= ""
    THEN ComputeParamsError(num_qubits, InitialParams(num_qubits, kwargs))
    ELSE SetUpDriftError(num_qubits, dims)

\* the attributes of the model the constructor returns
NewModel(num_qubits, dims, zz_crosstalk, kwargs) ==
    LET p == ComputeParams(num_qubits, InitialParams(num_qubits, kwargs))
    IN  [num_qubits |-> num_qubits,
         dims |-> dims,
         params |-> p,
         drift |-> SetUpDrift(num_qubits, dims, p),
         controls |-> SetUpControls(num_qubits, dims),
         noise |-> NoiseList(zz_crosstalk, p)]

\* ------------------------------------------------------------------------
\* The state: the object a caller holds after a constructor call, and the
\* outcome of that call.

VARIABLES
    status,      \* "unbuilt", "ok", or the exception the constructor raised
    call,        \* the constructor call made: class, num_qubits, kwargs
    num_qubits,  \* model.num_qubits
    dims,        \* model.dims
    params,      \* model.params
    drift,       \* model._drift
    controls,    \* model._controls
    noise,       \* model._noise
    processor,   \* the attributes SCQubits.__init__ sets on the processor
    edits        \* the item assignments made to model.params so far

vars == <<status, call, num_qubits, dims, params, drift, controls, noise,
          processor, edits>>

modelVars == <<num_qubits, dims, params, drift, controls, noise>>

HardwareNames == {"wq", "wr", "g", "alpha", "omega_single", "omega_cr"}

DerivedNames == {"wq_dressed", "wr_dressed", "J", "zx_coeff"}

\* the length _compute_params needs each hardware parameter to have
Required(name, n) ==
    CASE name = "wr" -> n - 1
      [] name = "g" -> 2 * (n - 1)
      [] OTHER -> n

\* ------------------------------------------------------------------------
\* The calls made.  The values a caller overrides a parameter with are
\* chosen against the defaults so that the detunings the program divides by
\* can vanish: wq = wr, wq - wr + alpha = 0, wq[i] = wq[i+1] and
\* wq[i] - wq[i+1] + alpha[i] = 0 all occur, as do 0/0 and 0 * inf.

Values(name) ==
    CASE name = "wq" -> {<<149, 25>>, <<154, 25>>}
      [] name = "wr" -> {<<103, 20>>, <<97, 20>>}
      [] name = "g" -> {Num(0), <<1, 5>>}
      [] name = "alpha" -> {Num(0), <<-1, 5>>}
      [] name = "omega_cr" -> {<<1, 50>>, <<3, 100>>}
      [] name = "omega_single" -> {<<1, 50>>}
      [] name = "dims" -> {2, 3}

Bool(b) == [type |-> "bool", items |-> <<b>>]

\* every list over vals of length len
Lists(vals, len) == IF len < 0 THEN {} ELSE {List(s) : s \in [1..len -> vals]}

\* the lists of length len that repeat one value or alternate between two
PatternLists(vals, len) ==
    IF len < 0 THEN {}
    ELSE {List([k \in 1..len |-> IF k % 2 = 1 THEN a ELSE b]) :
             a \in vals, b \in vals}

\* The lists a sequence argument is given as when n items are needed: all of
\* them at that length up to MaxQubits qubits, and patterned ones that are one
\* item short or long.
ListValues(vals, n, qubits) ==
    IF qubits > MaxQubits THEN {}
    ELSE Lists(vals, n) \cup PatternLists(vals, n - 1) \cup PatternLists(vals, n + 1)

\* The values a keyword argument is given in a call with num_qubits = n: a
\* number or a list for a hardware parameter, a list for dims (above
\* MaxQubits a patterned one).
ArgValues(name, n) ==
    CASE name = "zz_crosstalk" -> {Bool(TRUE), Bool(FALSE)}
      [] name = "dims" ->
            IF n <= MaxQubits THEN ListValues(Values(name), n, n)
            ELSE UNION {PatternLists(Values(name), len) : len \in {n - 1, n, n + 1}}
      [] OTHER ->
            {Float(v) : v \in Values(name)}
            \cup ListValues(Values(name), Required(name, n), n)

KwOrder ==
    <<"dims", "zz_crosstalk", "wq", "wr", "g", "alpha", "omega_single", "omega_cr">>

\* the keyword-argument dicts that use names KwOrder[from..] only and hold at
\* most count entries
RECURSIVE KwargsFrom(_, _, _)
KwargsFrom(from, count, n) ==
    IF count = 0 \/ from > Len(KwOrder) THEN {<<>>}
    ELSE KwargsFrom(from + 1, count, n)
         \cup {(KwOrder[from] :> v) @@ rest :
                  v \in ArgValues(KwOrder[from], n),
                  rest \in KwargsFrom(from + 1, count - 1, n)}

QubitCounts == (0 - 2)..MaxChain

\* the arguments of a call, read from its keyword arguments
ArgDims(kwargs) == IF "dims" \in DOMAIN kwargs THEN kwargs["dims"] ELSE None

ArgCrosstalk(kwargs) ==
    IF "zz_crosstalk" \in DOMAIN kwargs THEN kwargs["zz_crosstalk"].items[1] ELSE FALSE

ArgParams(kwargs) ==
    [name \in DOMAIN kwargs \ {"dims", "zz_crosstalk"} |-> kwargs[name]]

\* ------------------------------------------------------------------------
\* Actions.

NoParams == <<>>

Init ==
    /\ status = "unbuilt"
    /\ call = <<>>
    /\ num_qubits = 0
    /\ dims = None
    /\ params = NoParams
    /\ drift = <<>>
    /\ controls = <<>>
    /\ noise = <<>>
    /\ processor = <<>>
    /\ edits = 0

\* The constructor's effect on the caller's state: the model it returns, or
\* the exception it raises and no object at all.
Build(n, d, kwargs) ==
    \E err \in {ModelError(n, d, ArgParams(kwargs))} :
        IF err /= ""
        THEN /\ status' = err
             /\ UNCHANGED modelVars
        ELSE \E m \in {NewModel(n, d, ArgCrosstalk(kwargs), ArgParams(kwargs))} :
                 /\ status' = "ok"
                 /\ num_qubits' = m.num_qubits
                 /\ dims' = m.dims
                 /\ params' = m.params
                 /\ drift' = m.drift
                 /\ controls' = m.controls
                 /\ noise' = m.noise

\* model = SCQubitsModel(n, **kwargs)
ConstructModel(n, kwargs) ==
    /\ status = "unbuilt"
    /\ call' = [class |-> "SCQubitsModel", num_qubits |-> n, kwargs |-> kwargs]
    /\ Build(n, ArgDims(kwargs), kwargs)
    /\ UNCHANGED <<processor, edits>>

\* processor = SCQubits(n, **kwargs): dims defaults to [3] * num_qubits
ConstructProcessor(n, kwargs) ==
    /\ status = "unbuilt"
    /\ call' = [class |-> "SCQubits", num_qubits |-> n, kwargs |-> kwargs]
    /\ Build(n,
             IF ArgDims(kwargs) = None THEN List(Repeat(<<3>>, n))
             ELSE ArgDims(kwargs),
             kwargs)
    /\ processor' = IF status' = "ok"
                    THEN [native_gates |-> <<"RX", "RY", "CNOT">>,
                          pulse_mode |-> "continuous"]
                    ELSE processor
    /\ UNCHANGED edits

\* the calls a caller with no model yet can make
Next ==
    /\ status = "unbuilt"
    /\ \/ \E n \in QubitCounts : \E kwargs \in KwargsFrom(1, MaxKwargs, n) :
              ConstructModel(n, kwargs)
       \/ \E n \in QubitCounts : \E kwargs \in KwargsFrom(1, MaxKwargs, n) :
              ConstructProcessor(n, kwargs)

Spec == Init /\ [][Next]_vars

\* ------------------------------------------------------------------------
\* A caller that keeps the model and assigns to the items of model.params,
\* the plain dict the constructor leaves on the object.  Nothing in the class
\* intercepts the assignment.

EditableNames == {"wq", "wr", "g", "alpha", "omega_cr"}

\* an assignment after which the derived parameters are computed again
SetParamRecompute(name, i, v) ==
    /\ status = "ok"
    /\ edits < MaxEdits
    /\ i < PyLen(params[name])
    /\ \E p \in {[params EXCEPT ![name].items[i + 1] = v]} :
           \E d \in {ComputeParams(num_qubits, [h \in HardwareNames |-> p[h]])} :
               params' = [k \in DOMAIN params |->
                             IF k \in DerivedNames THEN d[k] ELSE p[k]]
    /\ edits' = edits + 1
    /\ UNCHANGED <<status, call, num_qubits, dims, drift, controls, noise, processor>>

\* model.params[name][i] = v
SetParam(name, i, v) ==
    /\ status = "ok"
    /\ edits < MaxEdits
    /\ i < PyLen(params[name])
    /\ params' = [params EXCEPT ![name].items[i + 1] = v]
    /\ edits' = edits + 1
    /\ UNCHANGED <<status, call, num_qubits, dims, drift, controls, noise, processor>>

\* the keyword arguments of the calls whose model is then edited
EditKwargs ==
    {<<>>, "zz_crosstalk" :> Bool(TRUE)}
    \cup {"wr" :> Float(v) : v \in Values("wr")}

NextEdit ==
    \/ /\ status = "unbuilt"
       /\ \E n \in 1..MaxQubits : \E kwargs \in EditKwargs :
              ConstructProcessor(n, kwargs)
    \/ \E name \in EditableNames : \E i \in 0..(2 * MaxQubits) :
           \E v \in Values(name) : SetParam(name, i, v)

SpecEdit == Init /\ [][NextEdit]_vars

\* ------------------------------------------------------------------------
\* Properties.

Made == status /= "unbuilt"

Kwargs == call.kwargs

Given(name) == name \in DOMAIN Kwargs

\* a hardware parameter left at its default, or given as a number or as a list
\* of the length the derivation needs
WellFormed(name) ==
    \/ ~Given(name)
    \/ IsScalar(Kwargs[name])
    \/ IsSequence(Kwargs[name])
       /\ PyLen(Kwargs[name]) = Required(name, call.num_qubits)

\* a hardware parameter given as a list of another length
WrongLength(name) ==
    /\ Given(name)
    /\ IsSequence(Kwargs[name])
    /\ PyLen(Kwargs[name]) /= Required(name, call.num_qubits)

\* dims names one dimension per qubit
DimsFit ==
    \/ call.class = "SCQubits" /\ ~Given("dims")
    \/ Given("dims") /\ PyLen(Kwargs["dims"]) = call.num_qubits

AllWellFormed == call.num_qubits >= 1 /\ \A name \in HardwareNames : WellFormed(name)

LengthsFit ==
    /\ PyLen(params["wq"]) = num_qubits
    /\ PyLen(params["alpha"]) = num_qubits
    /\ PyLen(params["omega_single"]) = num_qubits
    /\ PyLen(params["omega_cr"]) = num_qubits
    /\ PyLen(params["wr"]) = num_qubits - 1
    /\ PyLen(params["g"]) = 2 * (num_qubits - 1)
    /\ PyLen(params["wq_dressed"]) = num_qubits
    /\ PyLen(params["wr_dressed"]) = num_qubits - 1
    /\ PyLen(params["J"]) = num_qubits - 1
    /\ PyLen(params["zx_coeff"]) = 2 * (num_qubits - 1)
    /\ (num_qubits = 1 =>
           /\ params["wr"].items = <<>>
           /\ params["g"].items = <<>>
           /\ params["J"].items = <<>>
           /\ params["zx_coeff"].items = <<>>)

ControlKeys == {controls[k].key : k \in 1..Len(controls)}

ExpectedKeys(n) ==
    {"sx" \o Str(m) : m \in 0..(n - 1)}
    \cup {"sy" \o Str(m) : m \in 0..(n - 1)}
    \cup {"zx" \o Str(m) \o Str(m + 1) : m \in 0..(n - 2)}
    \cup {"zx" \o Str(m + 1) \o Str(m) : m \in 0..(n - 2)}

\* C2: for N >= 1 the control mapping has exactly 2N + 2(N-1) entries with
\* pairwise distinct keys, and its keys are exactly sx m, sy m (0 <= m < N)
\* and zx m (m+1), zx (m+1) m (0 <= m < N-1); for N = 1 they are sx0 and sy0,
\* for N = 2 sx0, sx1, sy0, sy1, zx01, zx10.
C2_Keys ==
    (status = "ok" /\ num_qubits >= 1) =>
        /\ Len(controls) = 2 * num_qubits + 2 * (num_qubits - 1)
        /\ Cardinality(ControlKeys) = Len(controls)
        /\ ControlKeys = ExpectedKeys(num_qubits)
        /\ (num_qubits = 1 => ControlKeys = {"sx0", "sy0"})
        /\ (num_qubits = 2 =>
               ControlKeys = {"sx0", "sx1", "sy0", "sy1", "zx01", "zx10"})

\* a chain long enough for two-digit site numbers in the keys
C2_Witness ==
    /\ status = "ok"
    /\ num_qubits = MaxChain
    /\ "zx109" \in ControlKeys

\* C3: a hardware parameter given as a list whose length differs from the
\* needed one (N for wq, alpha, omega_single, omega_cr; N-1 for wr; 2(N-1)
\* for g) makes construction fail: no model is returned for it.
C3_WrongLengthRejected ==
    (Made /\ call.num_qubits >= 1 /\ \E name \in HardwareNames : WrongLength(name))
        => status /= "ok"

\* the detunings _compute_params divides by
ZeroDetuning ==
    \/ \E i \in 1..(num_qubits - 1) :
           Sub(Item(params, "wq", i), Item(params, "wr", i - 1)) = Num(0)
    \/ \E i \in 0..(num_qubits - 2) :
           \/ Sub(Item(params, "wq", i), Item(params, "wr", i)) = Num(0)
           \/ Add(Sub(Item(params, "wq", i), Item(params, "wr", i)),
                  Item(params, "alpha", i)) = Num(0)
           \/ Add(Sub(Item(params, "wq", i + 1), Item(params, "wr", i)),
                  Item(params, "alpha", i)) = Num(0)
           \/ Sub(Item(params, "wq", i), Item(params, "wq", i + 1)) = Num(0)
           \/ Add(Sub(Item(params, "wq", i), Item(params, "wq", i + 1)),
                  Item(params, "alpha", i)) = Num(0)
           \/ Add(Sub(Item(params, "wq", i + 1), Item(params, "wq", i)),
                  Item(params, "alpha", i + 1)) = Num(0)

\* C4: when a detuning the derivation divides by is zero, construction fails
\* and no J, wq_dressed, wr_dressed or zx_coeff is returned: a model that was
\* returned has no zero detuning.
C4_DegeneracyRejected == status = "ok" => ~ZeroDetuning

\* C5: construction succeeds only if num_qubits >= 1 and len(dims) =
\* num_qubits.
C5_ShapeChecked ==
    status = "ok" =>
        /\ num_qubits >= 1
        /\ IsSequence(dims)
        /\ PyLen(dims) = num_qubits

\* the caller-supplied hardware parameters of the model are those of the call
HardwareOf(ps) == [name \in HardwareNames |-> ps[name]]

\* the derived parameters _compute_params gives for hardware parameters hw
DerivedFrom(n, hw) ==
    LET p == ComputeParams(n, hw) IN [name \in DerivedNames |-> p[name]]

DerivedOf(ps) == [name \in DerivedNames |-> ps[name]]

\* C6 as stated: in every state after construction, also after item
\* assignments to the hardware parameters in model.params, wq_dressed,
\* wr_dressed, J and zx_coeff equal the derivation applied to the current
\* hardware parameters.
C6_NeverStale ==
    status = "ok" => DerivedOf(params) = DerivedFrom(num_qubits, HardwareOf(params))

\* C6 amended: wq_dressed, wr_dressed, J and zx_coeff equal the derivation
\* applied to the hardware parameters the constructor was called with;
\* nothing recomputes them when items of model.params are assigned later.
C6_DerivedAtConstruction ==
    status = "ok" =>
        DerivedOf(params) =
            DerivedFrom(num_qubits,
                        Update(DefaultParams(num_qubits), ArgParams(Kwargs)))

\* a model whose wq was overwritten after a construction with another wr
C6_Witness ==
    /\ status = "ok"
    /\ edits = MaxEdits
    /\ Given("wr")
    /\ params["wq"].items /= DefaultParams(num_qubits)["wq"].items

\* C7: for N >= 1 the control mapping is inserted in the order sx0..sx(N-1),
\* sy0..sy(N-1), then for m = 0..N-2 ascending zx m (m+1) followed by
\* zx (m+1) m; sx m and sy m act on sites [m]; both zx entries of a pair act
\* on sites [m, m+1], with the Z-like factor on site m for zx m (m+1) and on
\* site m+1 for zx (m+1) m.
C7_Order ==
    (status = "ok" /\ num_qubits >= 1) =>
        /\ Len(controls) = 4 * num_qubits - 2
        /\ \A m \in 0..(num_qubits - 1) :
               /\ controls[m + 1].key = "sx" \o Str(m)
               /\ controls[m + 1].value.targets = <<m>>
               /\ controls[num_qubits + m + 1].key = "sy" \o Str(m)
               /\ controls[num_qubits + m + 1].value.targets = <<m>>
        /\ \A m \in 0..(num_qubits - 2) :
               LET first == controls[2 * num_qubits + 2 * m + 1]
                   second == controls[2 * num_qubits + 2 * m + 2]
               IN  /\ first.key = "zx" \o Str(m) \o Str(m + 1)
                   /\ first.value.targets = <<m, m + 1>>
                   /\ first.value.op[1].f = "z"
                   /\ first.value.op[2].f /= "z"
                   /\ second.key = "zx" \o Str(m + 1) \o Str(m)
                   /\ second.value.targets = <<m, m + 1>>
                   /\ second.value.op[2].f = "z"
                   /\ second.value.op[1].f /= "z"

\* a chain of three qubits of unequal dimensions
C7_Witness ==
    /\ status = "ok"
    /\ num_qubits = 3
    /\ dims.items = <<2, 3, 2>>

Zx(k) == Item(params, "zx_coeff", k)

\* the hardware parameters read the same from either end of the chain
ReflectionSymmetric ==
    /\ \A i \in 0..(num_qubits - 1) :
           /\ Item(params, "wq", i) = Item(params, "wq", num_qubits - 1 - i)
           /\ Item(params, "alpha", i) = Item(params, "alpha", num_qubits - 1 - i)
           /\ Item(params, "omega_cr", i) = Item(params, "omega_cr", num_qubits - 1 - i)
    /\ \A i \in 0..(num_qubits - 2) :
           Item(params, "wr", i) = Item(params, "wr", num_qubits - 2 - i)
    /\ \A j \in 0..(2 * (num_qubits - 1) - 1) :
           Item(params, "g", j) = Item(params, "g", 2 * (num_qubits - 1) - 1 - j)

\* |a| == |b| as floats, or both NaN
SameMagnitude(a, b) == (IsNaN(a) /\ IsNaN(b)) \/ FloatEq(Abs(a), Abs(b))

\* C8 as stated: for reflection-symmetric hardware parameters,
\* |zx_coeff[i]| = |zx_coeff[2(N-1)-1-i]| for every 0 <= i < 2(N-1).
C8_MirrorIndex ==
    (status = "ok" /\ num_qubits >= 1 /\ ReflectionSymmetric) =>
        \A i \in 0..(2 * (num_qubits - 1) - 1) :
            SameMagnitude(Zx(i), Zx(2 * (num_qubits - 1) - 1 - i))

\* C8 amended: for reflection-symmetric hardware parameters the k-th entry of
\* the forward pass and the k-th entry of the backward pass have the same
\* magnitude (or are both NaN): |zx_coeff[k]| = |zx_coeff[N-1+k]| for every
\* 0 <= k < N-1.
C8_PassSymmetry ==
    (status = "ok" /\ num_qubits >= 1 /\ ReflectionSymmetric) =>
        \A k \in 0..(num_qubits - 2) :
            SameMagnitude(Zx(k), Zx(num_qubits - 1 + k))

\* a symmetric chain of three qubits with wq given as a list, whose two
\* forward entries are finite and differ in magnitude
C8_Witness ==
    /\ status = "ok"
    /\ num_qubits = 3
    /\ Given("wq") /\ IsSequence(Kwargs["wq"])
    /\ ReflectionSymmetric
    /\ IsFinite(Zx(0)) /\ IsFinite(Zx(1))
    /\ Abs(Zx(0)) /= Abs(Zx(1))
    /\ Zx(0) /= Num(0)

\* C9: a model built with zz_crosstalk=False has an empty noise list and one
\* built with zz_crosstalk=True a list of exactly one term, which was given
\* the parameter set after derivation: it holds wq_dressed, wr_dressed, J and
\* zx_coeff.
C9_Noise ==
    status = "ok" =>
        IF ArgCrosstalk(Kwargs)
        THEN /\ Len(noise) = 1
             /\ noise[1].args = params
             /\ DerivedNames \subseteq DOMAIN noise[1].args
        ELSE noise = <<>>

\* a model of two or more qubits built with cross-talk
C9_Witness ==
    /\ status = "ok"
    /\ ArgCrosstalk(Kwargs)
    /\ num_qubits >= 2
    /\ Len(noise) = 1

\* J * omega_cr[i] * (1/(D + alpha[i]) - 1/D) with D = wq[i] - wq[j], times 2
ExpectedZx(link, i, j) ==
    LET D == Sub(Item(params, "wq", i), Item(params, "wq", j))
    IN  Mul(Num(2),
            Mul(Mul(Item(params, "J", link), Item(params, "omega_cr", i)),
                Sub(Div(Num(1), Add(D, Item(params, "alpha", i))),
                    Div(Num(1), D))))

\* C10: zx_coeff is a forward pass followed by a backward pass: for
\* 0 <= k < N-1 zx_coeff[k] is the term of drive qubit k towards k+1, from
\* J[k], omega_cr[k], alpha[k] and wq[k]-wq[k+1]; for 0 <= j < N-1
\* zx_coeff[N-1+j] is the term of drive qubit i = N-1-j towards i-1, from
\* J[i-1], omega_cr[i], alpha[i] and wq[i]-wq[i-1]; each term is
\* J*omega_cr*(1/(D+alpha) - 1/D), and every entry is scaled by 2.
C10_TwoPasses ==
    (status = "ok" /\ num_qubits >= 1) =>
        /\ PyLen(params["zx_coeff"]) = 2 * (num_qubits - 1)
        /\ \A k \in 0..(num_qubits - 2) : Zx(k) = ExpectedZx(k, k, k + 1)
        /\ \A j \in 0..(num_qubits - 2) :
               Zx(num_qubits - 1 + j) =
                   ExpectedZx(num_qubits - 1 - j - 1, num_qubits - 1 - j,
                              num_qubits - 1 - j - 1)

\* three qubits with unequal drive strengths and finite, nonzero entries
C10_Witness ==
    /\ status = "ok"
    /\ num_qubits = 3
    /\ Given("omega_cr")
    /\ Item(params, "omega_cr", 0) /= Item(params, "omega_cr", 2)
    /\ \A k \in 0..3 : IsFinite(Zx(k)) /\ Zx(k) /= Num(0)

\* g of link l on the side of qubit q, q being l or l + 1: g[2l] or g[2l+1]
G(l, q) == Item(params, "g", 2 * l + (q - l))

\* a coupling term that pairs g[2l] with qubit l or g[2l+1] with qubit l + 1
PairedByLink(c) ==
    /\ c.qubit \in {c.link, c.link + 1}
    /\ c.g = 2 * c.link + (c.qubit - c.link)

\* the two coupling terms of link l
LinkTerms(l) ==
    {[g |-> 2 * l, qubit |-> l, link |-> l],
     [g |-> 2 * l + 1, qubit |-> l + 1, link |-> l]}

\* the derived values when every loop pairs g with the qubits by link
ExpectedWqDressed(q) ==
    LET t1 == IF q /= 0
              THEN Add(Item(params, "wq", q),
                       Div(Mul(G(q - 1, q), G(q - 1, q)),
                           Sub(Item(params, "wq", q), Item(params, "wr", q - 1))))
              ELSE Item(params, "wq", q)
    IN  IF q /= num_qubits - 1
        THEN Add(t1, Div(Mul(G(q, q), G(q, q)),
                         Sub(Item(params, "wq", q), Item(params, "wr", q))))
        ELSE t1

ExpectedWrDressed(l) ==
    Sub(Sub(Item(params, "wr", l),
            Div(Mul(G(l, l), G(l, l)),
                Add(Sub(Item(params, "wq", l), Item(params, "wr", l)),
                    Item(params, "alpha", l)))),
        Div(Mul(G(l, l + 1), G(l, l + 1)),
            Add(Sub(Item(params, "wq", l + 1), Item(params, "wr", l)),
                Item(params, "alpha", l))))

ExpectedJ(l) ==
    Div(Div(Div(Mul(Mul(G(l, l), G(l, l + 1)),
                    Sub(Add(Item(params, "wq", l), Item(params, "wq", l + 1)),
                        Mul(Num(2), Item(params, "wr", l)))),
                Num(2)),
            Sub(Item(params, "wq", l), Item(params, "wr", l))),
        Sub(Item(params, "wq", l + 1), Item(params, "wr", l)))

\* C11: for N >= 1 and arrays of the normalised lengths, every subscript
\* _compute_params evaluates on g, wr, wq, alpha, omega_cr and J is within
\* bounds (neither negative nor past the end), and the three derivations use
\* the couplings alike: on link i every loop pairs g[2i] with qubit i and
\* g[2i+1] with qubit i+1, each link's two terms occur in wq_dressed,
\* wr_dressed and J, and the stored wq_dressed, wr_dressed and J are the
\* values of that pairing.
C11_ReadsAndPairing ==
    (status = "ok" /\ num_qubits >= 1 /\ LengthsFit) =>
        LET reads == AllReads(num_qubits)
            links == 0..(num_qubits - 2)
            inWq == UNION {WqDressedCouplings(num_qubits, q) :
                              q \in 0..(num_qubits - 1)}
            inWr == UNION {WrDressedCouplings(l) : l \in links}
            inJ == UNION {JCouplings(l) : l \in links}
            all == UNION {LinkTerms(l) : l \in links}
        IN  /\ \A k \in 1..Len(reads) :
                   /\ reads[k][2] >= 0
                   /\ reads[k][2] < PyLen(params[reads[k][1]])
            /\ \A c \in inWq \cup inWr \cup inJ : PairedByLink(c)
            /\ inWq = all /\ inWr = all /\ inJ = all
            /\ \A q \in 0..(num_qubits - 1) :
                   Item(params, "wq_dressed", q) = ExpectedWqDressed(q)
            /\ \A l \in links :
                   /\ Item(params, "wr_dressed", l) = ExpectedWrDressed(l)
                   /\ Item(params, "J", l) = ExpectedJ(l)

\* three qubits whose links have unequal couplings on their two sides, with
\* finite derived values
C11_Witness ==
    /\ status = "ok"
    /\ num_qubits = 3
    /\ LengthsFit
    /\ Given("g") /\ IsSequence(Kwargs["g"])
    /\ G(0, 0) /= G(0, 1) /\ G(1, 1) /= G(1, 2)
    /\ \A q \in 0..2 : IsFinite(Item(params, "wq_dressed", q))
    /\ \A l \in 0..1 : IsFinite(Item(params, "J", l))
                       /\ IsFinite(Item(params, "wr_dressed", l))

====
